---- MODULE Spec2Model ----
(***************************************************************************)
(* Model of src/src/App.jsx: the test-sheet editor (TestSheetEditor), its  *)
(* debounced autosave effect, the row/field mutation handlers, the tap row *)
(* generator and the derivation functions, together with the part of App   *)
(* that mounts and unmounts the editor and performs the repository write.  *)
(*                                                                         *)
(* Text is a sequence of one-character strings, so that String.replace and *)
(* parseFloat are modelled by what they do to the characters.  Time is in  *)
(* milliseconds; a timer fires exactly at its deadline.  Numbers are exact *)
(* rationals (IEEE rounding is outside the model).  The session is signed  *)
(* in (user # null) from the initial state on; the repository keeps one    *)
(* collection of project documents per owner scope.                        *)
(***************************************************************************)
EXTENDS Integers, Sequences, FiniteSets, TLC

(***************************************************************************)
(* Bounds of the model                                                     *)
(***************************************************************************)
MaxTime == 2000
MaxEdits == 2
MaxSheetEdits == 2
MaxInFlight == 2
MaxRows == 2
MaxCalcEdits == 2
MaxProjects == 3
MaxStamp == 2
MaxCreates == 1
MaxDeletes == 2
MaxDashboardTime == 4000
NumIds == 2

(***************************************************************************)
(* Program constants                                                       *)
(***************************************************************************)
DebounceMs == 1000
TapOptions == 17
DefaultTapRange == 5
DefaultTgRows == 4
DefaultInsRows == 6
ConfirmMs == 3000
SHARED_UID == "empresa-demo-001"

Tick == DebounceMs \div 2

(***************************************************************************)
(* Text                                                                    *)
(***************************************************************************)
Undefined == <<"undefined">>
Null == <<"null">>
Empty == <<>>

\* JS truthiness of a field value: undefined and '' are falsy
Falsy(v) == v = Undefined \/ v = Empty

RECURSIVE IndexFrom(_, _, _)
IndexFrom(s, c, i) ==
    IF i > Len(s) THEN 0
    ELSE IF s[i] = c THEN i
    ELSE IndexFrom(s, c, i + 1)

\* String.prototype.indexOf for a one-character pattern, 1-based, 0 when absent
IndexOf(s, c) == IndexFrom(s, c, 1)

\* String.prototype.replace with a string pattern: only the first occurrence
Replace(s, c, r) ==
    IF IndexOf(s, c) = 0 THEN s
    ELSE [i \in 1..Len(s) |-> IF i = IndexOf(s, c) THEN r ELSE s[i]]

HasPeriod(v) == \E i \in 1..Len(v) : v[i] = "."

\* obj.field of a JS object modelled as a function: undefined when absent
Get(obj, f) == IF f \in DOMAIN obj THEN obj[f] ELSE Undefined

\* { ...obj, [f]: v }
Put(obj, f, v) == (f :> v) @@ obj

EmptyObj == [k \in {} |-> Empty]

(***************************************************************************)
(* Field names                                                             *)
(***************************************************************************)
TapFields == {"ratioPercent", "ratedRatio", "phaseA", "phaseB", "phaseC",
              "resConn1Meas", "resConn2Meas", "resConn3Meas"}
TgNumericFields == {"testVoltage", "tgPercent", "capacitance"}
TgTextFields == {"mode", "injection", "measurement", "guard"}
InsNumericFields == {"val30s", "val1m", "val2m", "val3m", "val4m", "val5m",
                     "val6m", "val7m", "val8m", "val9m", "val10m"}
InsTextFields == {"injection", "measurement", "guard"}
SettingNumericFields == {"measuredTemp", "refTemp"}
SettingNameFields == {"conn1Name", "conn2Name", "conn3Name"}
HeaderFields == {"manufacturingNumber", "serialNumber", "client", "date"}

(***************************************************************************)
(* Row ids                                                                 *)
(***************************************************************************)
\* The values Math.random().toString(36).substr(2, 9) can return: nothing in
\* generateId remembers or excludes a value returned before.
IdSpace == {"r" \o ToString(i) : i \in 1..NumIds}

RowIds(rows) == {rows[i]["id"] : i \in 1..Len(rows)}

NewRow(id) == ("id" :> id)

(***************************************************************************)
(* Tap row generator                                                       *)
(***************************************************************************)
RECURSIVE PosRowsFromZero(_)
\* (variant: the loop runs while i >= 0)
PosRowsFromZero(i) ==
    IF i < 0 THEN <<>>
    ELSE <<[id |-> "pos-" \o ToString(i), label |-> "+" \o ToString(i)]>>
         \o PosRowsFromZero(i - 1)

RECURSIVE PosRows(_)
\* for (let i = tapRange; i >= 1; i--) rows.push({id: `pos-${i}`, label: `+${i}`})
PosRows(i) ==
    IF i < 1 THEN <<>>
    ELSE <<[id |-> "pos-" \o ToString(i), label |-> "+" \o ToString(i)]>>
         \o PosRows(i - 1)

RECURSIVE NegRows(_, _)
\* for (let i = 1; i <= tapRange; i++) rows.push({id: `neg-${i}`, label: `-${i}`})
NegRows(i, n) ==
    IF i > n THEN <<>>
    ELSE <<[id |-> "neg-" \o ToString(i), label |-> "-" \o ToString(i)]>>
         \o NegRows(i + 1, n)

TapRows(n) ==
    PosRows(n) \o <<[id |-> "neutral", label |-> "0 (Nominal)"]>> \o NegRows(1, n)

(***************************************************************************)
(* State                                                                   *)
(***************************************************************************)
VARIABLES
    now,               \* wall clock, ms
    projects,          \* App: the delivered project list
    activeProjectId,   \* App: id of the project open in the editor, or Null
    tapRange,          \* TestSheetEditor state
    data,
    tgDeltaData,
    insulationData,
    headerInfo,
    resistanceSettings,
    isSaving,
    timeoutId,         \* the timer of the latest autosave effect run
    timers,            \* pending setTimeout callbacks
    inflight,          \* setDoc calls not yet settled, oldest first
    stored,            \* the document last written successfully, or Null
    edits,             \* number of mutations so far (bounded by MaxEdits)
    lastMutationAt,    \* history: time of the latest autosave effect run
    burstLen,          \* history: mutations since the last quiet period
    burstWrites,       \* history: writes issued since the burst began
    lastWrite,         \* history: the latest write issued by this editor
    unwritten,         \* history: a mutation no issued write carries yet
    failedUnsaved,     \* history: a write failed and none succeeded since
    assignedTg,        \* history: the ids given to tgDeltaData rows, in order
    assignedIns,       \* history: the ids given to insulationData rows, in order
    resizeFrom,        \* history: the data before a run of resizes, and the run
    workbook,          \* the file handleDownloadExcel wrote last, or NoWorkbook
    delivered,         \* history: the snapshot the subscription delivered last
    user,              \* App: the uid of the signed-in user
    repo,              \* the repository: owner scope -> set of project documents
    lastConfirm,       \* history: the confirm('¿Borrar fila?') of the latest handler
    lastChange,        \* history: the row field change of the latest call, where kept
                       \* call and its answer, or NoConfirm
    confirmDeleteId,   \* ProjectDashboard: the project armed for deletion, or Null
    confirmDeadline,   \* ProjectDashboard: when the arming timer fires, or NoDeadline
    deleteCalls        \* history: the ids onDelete was called with, in order

editorVars == <<tapRange, data, tgDeltaData, insulationData, headerInfo,
                resistanceSettings>>
saveVars == <<isSaving, timeoutId, timers, inflight, stored>>
histVars == <<edits, lastMutationAt, burstLen, burstWrites, lastWrite,
              unwritten, failedUnsaved, assignedTg, assignedIns, resizeFrom>>
outVars == <<workbook, delivered>>
dashVars == <<confirmDeleteId, confirmDeadline, deleteCalls>>
vars == <<now, projects, activeProjectId, editorVars, saveVars, histVars,
          outVars, user, repo, lastConfirm, lastChange, dashVars>>

DocIds(docs) == {docs[i].id : i \in 1..Len(docs)}

\* App renders the dashboard while no project is active
dashboardShown == activeProjectId = Null

\* App renders the editor while the active project is in the list, and the
\* 'Error' view while it is not: projects.find(p => p.id === activeProjectId)
editorOpen == activeProjectId # Null /\ activeProjectId \in DocIds(projects)

errorShown == activeProjectId # Null /\ activeProjectId \notin DocIds(projects)

(***************************************************************************)
(* Fixtures: the project the repository delivered                          *)
(***************************************************************************)
DefaultHeaderInfo ==
    [manufacturingNumber |-> Empty, serialNumber |-> Empty, client |-> Empty,
     date |-> <<"d">>]

DefaultResistanceSettings ==
    [measuredTemp |-> <<"2", "0">>, refTemp |-> <<"7", "5">>,
     conn1Name |-> <<"C", "1">>, conn2Name |-> <<"C", "2">>,
     conn3Name |-> <<"C", "3">>]

\* a project as handleCreateProject wrote it, after one reading was entered
\* at tap +5 and rows were removed
StoredData == ("pos-5" :> ("phaseA" :> <<"1", ",", "5">>))

StoredProject ==
    [id |-> <<"p", "1">>, lastModified |-> 0, tapRange |-> DefaultTapRange,
     headerInfo |-> DefaultHeaderInfo, data |-> StoredData,
     resistanceSettings |-> DefaultResistanceSettings,
     tgDeltaData |-> <<NewRow("r1")>>,
     insulationData |-> <<NewRow("r1")>>]

NoWrite == [project |-> Null, issuedAt |-> 0]
\* no editor mounted: a timer id that names no pending timer
NoTimeout == [deadline |-> -1, project |-> [StoredProject EXCEPT !.id = Null]]
NoResize == [data |-> EmptyObj, trail |-> <<>>]
\* no file was written yet
NoWorkbook == [name |-> Empty, ttr |-> <<>>, res |-> <<>>, tg |-> <<>>, ins |-> <<>>]
\* the latest handler call showed no confirm dialog
NoConfirm == [collection |-> "", id |-> "", confirmed |-> FALSE]
\* the latest handler call was not a field change of a row
NoChange == [collection |-> "", id |-> "", field |-> "", value |-> Empty]
\* no arming timer is pending
NoDeadline == -1

\* the uids a session can be signed in with: the one the subscription reads,
\* and the one an anonymous sign-in gives
AnonUid == "anon-1"
Uids == {SHARED_UID, AnonUid}

\* the state once the session is signed in as uid and the first snapshot of
\* the subscription has arrived
InitAs(uid) ==
    /\ now = 0
    /\ projects = <<StoredProject>>
    /\ activeProjectId = Null
    /\ tapRange = 0
    /\ data = EmptyObj
    /\ tgDeltaData = <<>>
    /\ insulationData = <<>>
    /\ headerInfo = DefaultHeaderInfo
    /\ resistanceSettings = DefaultResistanceSettings
    /\ isSaving = FALSE
    /\ timeoutId = NoTimeout
    /\ timers = {}
    /\ inflight = <<>>
    /\ stored = Null
    /\ edits = 0
    /\ lastMutationAt = 0
    /\ burstLen = 0
    /\ burstWrites = 0
    /\ lastWrite = NoWrite
    /\ unwritten = FALSE
    /\ failedUnsaved = FALSE
    /\ assignedTg = <<>>
    /\ assignedIns = <<>>
    /\ resizeFrom = NoResize
    /\ workbook = NoWorkbook
    /\ delivered = <<StoredProject>>
    /\ user = uid
    /\ repo = [u \in Uids |-> IF u = SHARED_UID THEN {StoredProject} ELSE {}]
    /\ lastConfirm = NoConfirm
    /\ lastChange = NoChange
    /\ confirmDeleteId = Null
    /\ confirmDeadline = NoDeadline
    /\ deleteCalls = <<>>

\* signInAnonymously gives the session a uid of its own
Init == InitAs(AnonUid)

\* the session of any account, the one whose uid is SHARED_UID included
InitAnyUser == \E uid \in Uids : InitAs(uid)

(***************************************************************************)
(* The autosave effect                                                     *)
(***************************************************************************)
\* (variant: lastModified is left as the spread project prop has it)
UpdatedProjectStale(pid, tr, d, tg, ins, h, rs) ==
    [id |-> pid, tapRange |-> tr, data |-> d, tgDeltaData |-> tg,
     insulationData |-> ins, headerInfo |-> h, resistanceSettings |-> rs,
     lastModified |-> StoredProject.lastModified]

\* updatedProject of the effect run that renders the given editor state
UpdatedProject(pid, tr, d, tg, ins, h, rs) ==
    [id |-> pid, tapRange |-> tr, data |-> d, tgDeltaData |-> tg,
     insulationData |-> ins, headerInfo |-> h, resistanceSettings |-> rs,
     lastModified |-> now]

\* setTimeout(() => onUpdate(updatedProject)..., 1000)
SetTimeout(project) == [deadline |-> now + DebounceMs, project |-> project]

\* (variant: the cleanup clears nothing)
KeepTimeout(ts, id) == ts

\* the effect's cleanup: clearTimeout(timeoutId)
ClearTimeout(ts, id) == ts \ {id}

\* one run of the effect: the previous run's cleanup, then its body
AutosaveEffect(pid, tr, d, tg, ins, h, rs) ==
    /\ isSaving' = TRUE
    /\ timeoutId' = SetTimeout(UpdatedProject(pid, tr, d, tg, ins, h, rs))
    /\ timers' = ClearTimeout(timers, timeoutId) \cup {timeoutId'}
    /\ lastMutationAt' = now

(***************************************************************************)
(* Mutations of the editor state.  Every setter that stores a new value    *)
(* re-renders the editor, and the changed dependency re-runs the effect.   *)
(***************************************************************************)
Rerender(tr, d, tg, ins, h, rs) ==
    /\ editorOpen
    /\ tapRange' = tr
    /\ data' = d
    /\ tgDeltaData' = tg
    /\ insulationData' = ins
    /\ headerInfo' = h
    /\ resistanceSettings' = rs
    /\ AutosaveEffect(activeProjectId, tr, d, tg, ins, h, rs)
    /\ edits' = edits + 1
    /\ burstLen' = IF burstLen >= 1 /\ timeoutId \in timers
                   THEN burstLen + 1 ELSE 1
    /\ burstWrites' = IF burstLen >= 1 /\ timeoutId \in timers
                      THEN burstWrites ELSE 0
    /\ unwritten' = TRUE
    /\ UNCHANGED <<now, projects, activeProjectId, inflight, stored, lastWrite,
                   failedUnsaved, outVars, user, repo, dashVars>>

\* (variant: the resize drops the entries of the rows no longer generated)
SetTapRangePruning(n) ==
    /\ n \in 0..(TapOptions - 1)
    /\ n # tapRange
    /\ Rerender(n, [k \in DOMAIN data \cap
                            {TapRows(n)[i].id : i \in 1..Len(TapRows(n))}
                      |-> data[k]],
                tgDeltaData, insulationData, headerInfo, resistanceSettings)
    /\ resizeFrom' = IF resizeFrom.trail = <<>>
                     THEN [data |-> data, trail |-> <<tapRange, n>>]
                     ELSE [data |-> resizeFrom.data,
                           trail |-> Append(resizeFrom.trail, n)]
    /\ lastConfirm' = NoConfirm
    /\ lastChange' = NoChange
    /\ UNCHANGED <<assignedTg, assignedIns>>

\* <select value={tapRange} onChange={(e) => setTapRange(parseInt(e.target.value))}>
SetTapRange(n) ==
    /\ n \in 0..(TapOptions - 1)
    /\ n # tapRange
    /\ Rerender(n, data, tgDeltaData, insulationData, headerInfo,
                resistanceSettings)
    /\ resizeFrom' = IF resizeFrom.trail = <<>>
                     THEN [data |-> data, trail |-> <<tapRange, n>>]
                     ELSE [data |-> resizeFrom.data,
                           trail |-> Append(resizeFrom.trail, n)]
    /\ lastConfirm' = NoConfirm
    /\ lastChange' = NoChange
    /\ UNCHANGED <<assignedTg, assignedIns>>

\* the value handleInputChange stores for (id, field, value)
InputChanged(d, id, field, value) ==
    Put(d, id, Put(IF id \in DOMAIN d THEN d[id] ELSE EmptyObj, field,
                   Replace(value, ".", ",")))

HandleInputChange(id, field, value) ==
    /\ LET rows == TapRows(tapRange)
       IN  \E i \in 1..Len(rows) : rows[i].id = id
    /\ field \in TapFields
    /\ Rerender(tapRange, InputChanged(data, id, field, value), tgDeltaData,
                insulationData, headerInfo, resistanceSettings)
    /\ resizeFrom' = NoResize
    /\ lastConfirm' = NoConfirm
    /\ lastChange' = NoChange
    /\ UNCHANGED <<assignedTg, assignedIns>>

\* prev.map(row => row.id === id ? { ...row, [field]: v } : row)
MapRows(rows, id, field, v) ==
    [i \in 1..Len(rows) |->
        IF rows[i]["id"] = id THEN Put(rows[i], field, v) ELSE rows[i]]

\* prev.filter(row => row.id !== id)
FilterRows(rows, id) == SelectSeq(rows, LAMBDA row : row["id"] # id)

\* (variant: every field of a row is comma-normalised)
TgDeltaFormattedAlways(field, value) == Replace(value, ".", ",")

TgDeltaFormatted(field, value) ==
    IF field \in TgNumericFields THEN Replace(value, ".", ",") ELSE value

\* handleTgDeltaChange(id, field, value), with what the history keeps of it
TgDeltaChange(id, field, value, log) ==
    /\ field \in TgNumericFields \cup TgTextFields
    /\ Rerender(tapRange, data,
                MapRows(tgDeltaData, id, field, TgDeltaFormatted(field, value)),
                insulationData, headerInfo, resistanceSettings)
    /\ lastConfirm' = NoConfirm
    /\ lastChange' = log
    /\ UNCHANGED <<assignedTg, assignedIns, resizeFrom>>

HandleTgDeltaChange(id, field, value) ==
    TgDeltaChange(id, field, value, NoChange)

\* the same call, kept in the history
HandleTgDeltaChangeLogged(id, field, value) ==
    TgDeltaChange(id, field, value,
                  [collection |-> "tgDeltaData", id |-> id, field |-> field,
                   value |-> value])

\* generateId(): any value of the id space, whatever was returned before
GenerateId == IdSpace

AddTgDeltaRow ==
    /\ Len(tgDeltaData) < MaxRows
    /\ \E id \in GenerateId :
        /\ Rerender(tapRange, data, Append(tgDeltaData, NewRow(id)),
                    insulationData, headerInfo, resistanceSettings)
        /\ assignedTg' = Append(assignedTg, id)
    /\ lastConfirm' = NoConfirm
    /\ lastChange' = NoChange
    /\ UNCHANGED <<assignedIns, resizeFrom>>

\* (variant: the filter is applied whatever the answer to the dialog was)
RemoveTgDeltaRowUnasked(id, confirmed) ==
    /\ lastConfirm' =
        [collection |-> "tgDeltaData", id |-> id, confirmed |-> confirmed]
    /\ lastChange' = NoChange
    /\ Rerender(tapRange, data, FilterRows(tgDeltaData, id), insulationData,
                headerInfo, resistanceSettings)
    /\ UNCHANGED <<assignedTg, assignedIns, resizeFrom>>

\* if (confirm('¿Borrar fila?')) setTgDeltaData(prev => prev.filter(...))
RemoveTgDeltaRow(id, confirmed) ==
    /\ lastConfirm' =
        [collection |-> "tgDeltaData", id |-> id, confirmed |-> confirmed]
    /\ lastChange' = NoChange
    /\ IF confirmed
       THEN /\ Rerender(tapRange, data, FilterRows(tgDeltaData, id),
                        insulationData, headerInfo, resistanceSettings)
            /\ UNCHANGED <<assignedTg, assignedIns, resizeFrom>>
       ELSE UNCHANGED <<now, projects, activeProjectId, editorVars, saveVars,
                        histVars, outVars, user, repo, dashVars>>

InsulationFormatted(field, value) ==
    IF field \in InsNumericFields THEN Replace(value, ".", ",") ELSE value

\* handleInsulationChange(id, field, value), with what the history keeps
\* of it
InsulationChange(id, field, value, log) ==
    /\ field \in InsNumericFields \cup InsTextFields
    /\ Rerender(tapRange, data, tgDeltaData,
                MapRows(insulationData, id, field,
                        InsulationFormatted(field, value)),
                headerInfo, resistanceSettings)
    /\ lastConfirm' = NoConfirm
    /\ lastChange' = log
    /\ UNCHANGED <<assignedTg, assignedIns, resizeFrom>>

HandleInsulationChange(id, field, value) ==
    InsulationChange(id, field, value, NoChange)

\* the same call, kept in the history
HandleInsulationChangeLogged(id, field, value) ==
    InsulationChange(id, field, value,
                     [collection |-> "insulationData", id |-> id,
                      field |-> field, value |-> value])

AddInsulationRow ==
    /\ Len(insulationData) < MaxRows
    /\ \E id \in GenerateId :
        /\ Rerender(tapRange, data, tgDeltaData,
                    Append(insulationData, NewRow(id)), headerInfo,
                    resistanceSettings)
        /\ assignedIns' = Append(assignedIns, id)
    /\ lastConfirm' = NoConfirm
    /\ lastChange' = NoChange
    /\ UNCHANGED <<assignedTg, resizeFrom>>

\* if (confirm('¿Borrar fila?')) setInsulationData(prev => prev.filter(...))
RemoveInsulationRow(id, confirmed) ==
    /\ lastConfirm' =
        [collection |-> "insulationData", id |-> id, confirmed |-> confirmed]
    /\ lastChange' = NoChange
    /\ IF confirmed
       THEN /\ Rerender(tapRange, data, tgDeltaData,
                        FilterRows(insulationData, id), headerInfo,
                        resistanceSettings)
            /\ UNCHANGED <<assignedTg, assignedIns, resizeFrom>>
       ELSE UNCHANGED <<now, projects, activeProjectId, editorVars, saveVars,
                        histVars, outVars, user, repo, dashVars>>

\* setHeaderInfo({ ...headerInfo, [field]: e.target.value })
SetHeaderInfo(field, value) ==
    /\ field \in HeaderFields
    /\ Rerender(tapRange, data, tgDeltaData, insulationData,
                [headerInfo EXCEPT ![field] = value], resistanceSettings)
    /\ lastConfirm' = NoConfirm
    /\ lastChange' = NoChange
    /\ UNCHANGED <<assignedTg, assignedIns, resizeFrom>>

SettingFormatted(field, value) ==
    IF field \in SettingNumericFields THEN Replace(value, ".", ",") ELSE value

\* setResistanceSettings({ ...resistanceSettings, [field]: ... })
SetResistanceSettings(field, value) ==
    /\ field \in SettingNumericFields \cup SettingNameFields
    /\ Rerender(tapRange, data, tgDeltaData, insulationData, headerInfo,
                [resistanceSettings EXCEPT ![field] = SettingFormatted(field, value)])
    /\ lastConfirm' = NoConfirm
    /\ lastChange' = NoChange
    /\ UNCHANGED <<assignedTg, assignedIns, resizeFrom>>

(***************************************************************************)
(* App: mounting and unmounting the editor                                 *)
(***************************************************************************)
Has(obj, f) == f \in DOMAIN obj

\* useState(project.tapRange || 5): 0 is falsy
InitialTapRange(p) ==
    IF Has(p, "tapRange") /\ p.tapRange # 0 THEN p.tapRange ELSE DefaultTapRange

InitialData(p) == IF Has(p, "data") THEN p.data ELSE EmptyObj

\* project.tgDeltaData || [{ id: generateId() }, ... 4 times]
InitialTgDeltaData(p) ==
    IF Has(p, "tgDeltaData") THEN {p.tgDeltaData}
    ELSE {[i \in 1..DefaultTgRows |-> NewRow(f[i])] :
            f \in [1..DefaultTgRows -> GenerateId]}

\* project.insulationData || Array(6).fill(null).map(() => ({ id: generateId() }))
InitialInsulationData(p) ==
    IF Has(p, "insulationData") THEN {p.insulationData}
    ELSE {[i \in 1..DefaultInsRows |-> NewRow(f[i])] :
            f \in [1..DefaultInsRows -> GenerateId]}

InitialHeaderInfo(p) ==
    IF Has(p, "headerInfo") THEN p.headerInfo ELSE DefaultHeaderInfo

InitialResistanceSettings(p) ==
    IF Has(p, "resistanceSettings") THEN p.resistanceSettings
    ELSE DefaultResistanceSettings

\* a write issued by an editor that is unmounted can still settle, but its
\* setIsSaving(false) no longer reaches a mounted component
Orphaned(ws) == [i \in 1..Len(ws) |-> [ws[i] EXCEPT !.live = FALSE]]

\* App renders <TestSheetEditor key={p.id} project={p}>: the editor's state is
\* initialised from the project and its effect runs on mount
Mount(p) ==
    /\ \E tg \in InitialTgDeltaData(p), ins \in InitialInsulationData(p) :
        /\ tapRange' = InitialTapRange(p)
        /\ data' = InitialData(p)
        /\ tgDeltaData' = tg
        /\ insulationData' = ins
        /\ headerInfo' = InitialHeaderInfo(p)
        /\ resistanceSettings' = InitialResistanceSettings(p)
        /\ AutosaveEffect(p.id, InitialTapRange(p), InitialData(p), tg, ins,
                          InitialHeaderInfo(p), InitialResistanceSettings(p))
        /\ assignedTg' = [k \in 1..Len(tg) |-> tg[k]["id"]]
        /\ assignedIns' = [k \in 1..Len(ins) |-> ins[k]["id"]]
    /\ burstLen' = 0
    /\ burstWrites' = 0
    /\ lastWrite' = NoWrite
    /\ unwritten' = FALSE
    /\ failedUnsaved' = FALSE
    /\ resizeFrom' = NoResize
    /\ lastConfirm' = NoConfirm
    /\ lastChange' = NoChange

\* (variant: the unmount leaves the pending timer in place)
UnmountKeepingTimer ==
    /\ timers' = timers
    /\ timeoutId' = NoTimeout
    /\ inflight' = Orphaned(inflight)
    /\ tapRange' = 0
    /\ data' = EmptyObj
    /\ tgDeltaData' = <<>>
    /\ insulationData' = <<>>
    /\ headerInfo' = DefaultHeaderInfo
    /\ resistanceSettings' = DefaultResistanceSettings
    /\ isSaving' = FALSE
    /\ burstLen' = 0
    /\ burstWrites' = 0
    /\ resizeFrom' = NoResize
    /\ lastConfirm' = NoConfirm
    /\ lastChange' = NoChange

\* the editor is no longer rendered: its state is discarded and the effect's
\* cleanup runs, clearTimeout(timeoutId)
Unmount ==
    /\ timers' = ClearTimeout(timers, timeoutId)
    /\ timeoutId' = NoTimeout
    /\ inflight' = Orphaned(inflight)
    /\ tapRange' = 0
    /\ data' = EmptyObj
    /\ tgDeltaData' = <<>>
    /\ insulationData' = <<>>
    /\ headerInfo' = DefaultHeaderInfo
    /\ resistanceSettings' = DefaultResistanceSettings
    /\ isSaving' = FALSE
    /\ burstLen' = 0
    /\ burstWrites' = 0
    /\ resizeFrom' = NoResize
    /\ lastConfirm' = NoConfirm
    /\ lastChange' = NoChange

\* the first project of the list with the given id
Find(list, id) == list[CHOOSE i \in 1..Len(list) :
                        /\ list[i].id = id
                        /\ \A j \in 1..(i - 1) : list[j].id # id]

\* onSelect: setActiveProjectId(p.id); the dashboard is replaced by the editor
OpenEditor(i) ==
    /\ dashboardShown
    /\ i \in 1..Len(projects)
    /\ activeProjectId' = projects[i].id
    /\ Mount(Find(projects, projects[i].id))
    /\ confirmDeleteId' = Null
    /\ confirmDeadline' = NoDeadline
    /\ UNCHANGED <<now, projects, inflight, stored, edits, outVars, user, repo,
                   deleteCalls>>

\* onBack: setActiveProjectId(null); the editor is unmounted
CloseEditor ==
    /\ editorOpen
    /\ activeProjectId' = Null
    /\ Unmount
    /\ UNCHANGED <<now, projects, stored, edits, lastMutationAt, lastWrite,
                   unwritten, failedUnsaved, assignedTg, assignedIns, outVars,
                   user, repo, dashVars>>

\* the 'Volver' button of the 'Error' view: setActiveProjectId(null)
LeaveError ==
    /\ errorShown
    /\ activeProjectId' = Null
    /\ UNCHANGED <<now, projects, editorVars, saveVars, histVars, outVars, user,
                   repo, lastConfirm, lastChange, dashVars>>

(***************************************************************************)
(* Time, the debounce timer and the repository write                       *)
(***************************************************************************)
\* time passes, but not beyond the deadline of a pending timer
AdvanceTo(limit) ==
    /\ now + Tick <= limit
    /\ \A t \in timers : now + Tick <= t.deadline
    /\ confirmDeadline # NoDeadline => now + Tick <= confirmDeadline
    /\ now' = now + Tick
    /\ UNCHANGED <<projects, activeProjectId, editorVars, saveVars, histVars,
                   outVars, user, repo, lastConfirm, lastChange, dashVars>>

Advance == AdvanceTo(MaxTime)

\* the timer callback: onUpdate(updatedProject), i.e. handleUpdateProject's
\* setDoc(doc(...), project), which is now in flight
TimerFire(t) ==
    /\ t \in timers
    /\ now = t.deadline
    /\ Len(inflight) < MaxInFlight
    /\ timers' = timers \ {t}
    /\ inflight' = Append(inflight,
                          [project |-> t.project, issuedAt |-> now, live |-> TRUE])
    /\ burstWrites' = burstWrites + 1
    /\ lastWrite' = [project |-> t.project, issuedAt |-> now]
    /\ unwritten' = (unwritten /\ t # timeoutId)
    /\ UNCHANGED <<now, projects, activeProjectId, editorVars, isSaving,
                   timeoutId, stored, edits, lastMutationAt, burstLen,
                   failedUnsaved, assignedTg, assignedIns, resizeFrom,
                   outVars, user, repo, lastConfirm, lastChange, dashVars>>

\* .then(() => setIsSaving(false)) of the promise handleUpdateProject returns
Settled(w) == IF w.live THEN FALSE ELSE isSaving

\* setDoc(doc(db, ..., 'users', user.uid, 'projects', project.id), project):
\* the document with that id in the scope is replaced
Upsert(docs, p) == {d \in docs : d.id # p.id} \cup {p}

\* setDoc resolves: the document is stored in the scope of user.uid
WriteResolved ==
    /\ inflight # <<>>
    /\ stored' = Head(inflight).project
    /\ repo' = [repo EXCEPT ![user] = Upsert(@, Head(inflight).project)]
    /\ inflight' = Tail(inflight)
    /\ isSaving' = Settled(Head(inflight))
    /\ failedUnsaved' = (failedUnsaved /\ ~Head(inflight).live)
    /\ UNCHANGED <<now, projects, activeProjectId, editorVars, timeoutId,
                   timers, edits, lastMutationAt, burstLen, burstWrites,
                   lastWrite, unwritten, assignedTg, assignedIns, resizeFrom,
                   outVars, user, lastConfirm, lastChange, dashVars>>

\* setDoc rejects: handleUpdateProject catches and logs, so the promise it
\* returns still resolves and the same .then runs
WriteRejected ==
    /\ inflight # <<>>
    /\ inflight' = Tail(inflight)
    /\ isSaving' = Settled(Head(inflight))
    /\ failedUnsaved' = (failedUnsaved \/ Head(inflight).live)
    /\ UNCHANGED <<now, projects, activeProjectId, editorVars, timeoutId,
                   timers, stored, edits, lastMutationAt, burstLen,
                   burstWrites, lastWrite, unwritten, assignedTg, assignedIns,
                   resizeFrom, outVars, user, repo, lastConfirm, lastChange,
                   dashVars>>

(***************************************************************************)
(* Numbers: a JS number is null, NaN, an infinity (n = 1 or -1) or the     *)
(* rational n/d in lowest terms with d > 0                                 *)
(***************************************************************************)
NullV == [t |-> "null", n |-> 0, d |-> 1]
NaN == [t |-> "NaN", n |-> 0, d |-> 1]
Inf(sign) == [t |-> "inf", n |-> sign, d |-> 1]

Abs(x) == IF x < 0 THEN -x ELSE x
Sign(x) == IF x < 0 THEN -1 ELSE IF x > 0 THEN 1 ELSE 0

RECURSIVE Gcd(_, _)
Gcd(a, b) == IF b = 0 THEN a ELSE Gcd(b, a % b)

Rat(n, d) ==
    LET g == Gcd(Abs(n), Abs(d)) IN
    [t |-> "num", n |-> (Sign(d) * n) \div g, d |-> Abs(d) \div g]

Int2Num(k) == Rat(k, 1)
Zero == Int2Num(0)

IsNaN(x) == x.t = "NaN"
IsNum(x) == x.t = "num"

\* a - b and a + b
Add(a, b) ==
    IF IsNaN(a) \/ IsNaN(b) THEN NaN
    ELSE IF a.t = "inf" /\ b.t = "inf" THEN (IF a.n = b.n THEN a ELSE NaN)
    ELSE IF a.t = "inf" THEN a
    ELSE IF b.t = "inf" THEN b
    ELSE Rat(a.n * b.d + b.n * a.d, a.d * b.d)

Neg(a) == IF IsNum(a) THEN Rat(-a.n, a.d) ELSE IF a.t = "inf" THEN Inf(-a.n) ELSE a

Sub(a, b) == Add(a, Neg(b))

\* a * b
Mul(a, b) ==
    IF IsNaN(a) \/ IsNaN(b) THEN NaN
    ELSE IF a.t = "inf" \/ b.t = "inf"
         THEN (IF Sign(a.n) * Sign(b.n) = 0 THEN NaN
               ELSE Inf(Sign(a.n) * Sign(b.n)))
    ELSE Rat(a.n * b.n, a.d * b.d)

\* a / b: x/0 is an infinity, 0/0 and inf/inf are NaN
Div(a, b) ==
    IF IsNaN(a) \/ IsNaN(b) THEN NaN
    ELSE IF b.t = "inf" THEN (IF a.t = "inf" THEN NaN ELSE Zero)
    ELSE IF b.n = 0 THEN (IF a.n = 0 THEN NaN ELSE Inf(Sign(a.n)))
    ELSE IF a.t = "inf" THEN Inf(Sign(a.n) * Sign(b.n))
    ELSE Rat(a.n * b.d, a.d * b.n)

\* a < b and a <= b: false when either is NaN
Less(a, b) ==
    /\ ~IsNaN(a) /\ ~IsNaN(b)
    /\ IF a.t = "inf" THEN a.n < 0 /\ ~(b.t = "inf" /\ b.n < 0)
       ELSE IF b.t = "inf" THEN b.n > 0
       ELSE a.n * b.d < b.n * a.d

Leq(a, b) == ~IsNaN(a) /\ ~IsNaN(b) /\ (a = b \/ Less(a, b))

\* Math.abs
MathAbs(a) ==
    IF IsNum(a) THEN Rat(Abs(a.n), a.d) ELSE IF a.t = "inf" THEN Inf(1) ELSE a

(***************************************************************************)
(* parseFloat and parseNum                                                 *)
(***************************************************************************)
Digits == {"0", "1", "2", "3", "4", "5", "6", "7", "8", "9"}

DigitVal(c) ==
    CASE c = "0" -> 0 [] c = "1" -> 1 [] c = "2" -> 2 [] c = "3" -> 3
      [] c = "4" -> 4 [] c = "5" -> 5 [] c = "6" -> 6 [] c = "7" -> 7
      [] c = "8" -> 8 [] c = "9" -> 9

RECURSIVE DigitsEnd(_, _)
\* the first index at or after i that holds no digit
DigitsEnd(s, i) ==
    IF i <= Len(s) /\ s[i] \in Digits THEN DigitsEnd(s, i + 1) ELSE i

RECURSIVE DigitsValue(_, _, _)
\* the value of the digits s[i..j-1] read in base ten
DigitsValue(s, i, j) ==
    IF j <= i THEN 0 ELSE DigitsValue(s, i, j - 1) * 10 + DigitVal(s[j - 1])

RECURSIVE Pow10(_)
Pow10(k) == IF k = 0 THEN 1 ELSE 10 * Pow10(k - 1)

\* parseFloat: an optional sign, digits, an optional period and digits; what
\* follows the longest such prefix is ignored; NaN when the prefix has no digit
\* (the texts of the model hold no blank, exponent or "Infinity")
ParseFloat(s) ==
    LET signed == Len(s) >= 1 /\ s[1] \in {"-", "+"}
        sign == IF signed /\ s[1] = "-" THEN -1 ELSE 1
        i0 == IF signed THEN 2 ELSE 1
        i1 == DigitsEnd(s, i0)
        dot == i1 <= Len(s) /\ s[i1] = "."
        f0 == i1 + 1
        f1 == IF dot THEN DigitsEnd(s, f0) ELSE f0
    IN  IF i1 = i0 /\ f1 = f0 THEN NaN
        ELSE Rat(sign * (DigitsValue(s, i0, i1) * Pow10(f1 - f0)
                         + DigitsValue(s, f0, f1)),
                 Pow10(f1 - f0))

\* const parseNum = (val) => val ? parseFloat(String(val).replace(',', '.')) : 0
ParseNum(val) ==
    IF Falsy(val) THEN Zero ELSE ParseFloat(Replace(val, ",", "."))

(***************************************************************************)
(* Derivations                                                             *)
(***************************************************************************)
\* (variant: the difference is taken relative to the measured value)
CalculateDeviationOverMeasured(measured, rated) ==
    LET m == ParseNum(measured)
        r == ParseNum(rated)
    IN  IF IsNaN(m) \/ IsNaN(r) \/ r = Zero THEN NullV
        ELSE Mul(Div(Sub(m, r), m), Int2Num(100))

CalculateDeviation(measured, rated) ==
    LET m == ParseNum(measured)
        r == ParseNum(rated)
    IN  IF IsNaN(m) \/ IsNaN(r) \/ r = Zero THEN NullV
        ELSE Mul(Div(Sub(m, r), r), Int2Num(100))

CopperConstant == 235

\* (variant: the temperature ratio is inverted)
CalculateResistanceCorrectionInverted(measuredVal, settings) ==
    LET m == ParseNum(measuredVal)
        t_meas == ParseNum(settings.measuredTemp)
        t_ref == ParseNum(settings.refTemp)
    IN  IF IsNaN(m) \/ IsNaN(t_meas) \/ IsNaN(t_ref) THEN NullV
        ELSE Mul(m, Div(Add(Int2Num(CopperConstant), t_meas),
                        Add(Int2Num(CopperConstant), t_ref)))

CalculateResistanceCorrection(measuredVal, settings) ==
    LET m == ParseNum(measuredVal)
        t_meas == ParseNum(settings.measuredTemp)
        t_ref == ParseNum(settings.refTemp)
    IN  IF IsNaN(m) \/ IsNaN(t_meas) \/ IsNaN(t_ref) THEN NullV
        ELSE Mul(m, Div(Add(Int2Num(CopperConstant), t_ref),
                        Add(Int2Num(CopperConstant), t_meas)))

\* (variant: the ratio is inverted)
CalculateDARInverted(val1m, val30s) ==
    LET v1 == ParseNum(val1m)
        v30 == ParseNum(val30s)
    IN  IF v30 = Zero \/ IsNaN(v1) \/ IsNaN(v30) THEN NullV
        ELSE Div(v30, v1)

CalculateDAR(val1m, val30s) ==
    LET v1 == ParseNum(val1m)
        v30 == ParseNum(val30s)
    IN  IF v30 = Zero \/ IsNaN(v1) \/ IsNaN(v30) THEN NullV
        ELSE Div(v1, v30)

CalculatePI(val10m, val1m) ==
    LET v10 == ParseNum(val10m)
        v1 == ParseNum(val1m)
    IN  IF v1 = Zero \/ IsNaN(v10) \/ IsNaN(v1) THEN NullV
        ELSE Div(v10, v1)

(***************************************************************************)
(* Classification: the colour class each status function returns           *)
(***************************************************************************)
Half == Rat(1, 2)
One == Int2Num(1)

\* (variant: the boundary is exclusive)
GetStatusTTRStrict(deviation) ==
    IF deviation = NullV THEN "NEUTRAL"
    ELSE IF Less(MathAbs(deviation), Half) THEN "PASS"
    ELSE "FAIL"

GetStatusTTR(deviation) ==
    IF deviation = NullV THEN "NEUTRAL"
    ELSE IF Leq(MathAbs(deviation), Half) THEN "PASS"
    ELSE "FAIL"

GetStatusTG(valStr) ==
    IF Falsy(valStr) THEN "NEUTRAL"
    ELSE IF Less(ParseNum(valStr), Half) THEN "PASS"
    ELSE "FAIL"

\* (variant: the boundary is inclusive)
GetStatusIPInclusive(piValue) ==
    IF piValue = NullV THEN [class |-> "NEUTRAL", label |-> "-"]
    ELSE IF Leq(One, piValue) THEN [class |-> "PASS", label |-> "ACEPTABLE"]
    ELSE [class |-> "FAIL", label |-> "NO ACEPTABLE"]

GetStatusIP(piValue) ==
    IF piValue = NullV THEN [class |-> "NEUTRAL", label |-> "-"]
    ELSE IF Less(One, piValue) THEN [class |-> "PASS", label |-> "ACEPTABLE"]
    ELSE [class |-> "FAIL", label |-> "NO ACEPTABLE"]

(***************************************************************************)
(* What the editor renders from its state                                  *)
(***************************************************************************)
\* const rowData = data[row.id] || {}
RowData(id) == IF id \in DOMAIN data THEN data[id] ELSE EmptyObj

tapRows == TapRows(tapRange)

Deviation(id, phase) ==
    CalculateDeviation(Get(RowData(id), phase), Get(RowData(id), "ratedRatio"))

Corrected(id, conn) ==
    CalculateResistanceCorrection(Get(RowData(id), conn), resistanceSettings)

Dar(row) == CalculateDAR(Get(row, "val1m"), Get(row, "val30s"))

Pi(row) == CalculatePI(Get(row, "val10m"), Get(row, "val1m"))

(***************************************************************************)
(* formatNum: '-' for null and NaN, else toFixed(decimals) with the first  *)
(* period replaced by a comma                                              *)
(***************************************************************************)
DigitChar(k) == <<"0", "1", "2", "3", "4", "5", "6", "7", "8", "9">>[k + 1]

RECURSIVE NatText(_)
\* the decimal digits of a natural number
NatText(k) ==
    IF k < 10 THEN <<DigitChar(k)>>
    ELSE NatText(k \div 10) \o <<DigitChar(k % 10)>>

RECURSIVE FracText(_, _)
\* the last f decimal digits of k, zero-padded
FracText(k, f) ==
    IF f = 0 THEN <<>> ELSE FracText(k \div 10, f - 1) \o <<DigitChar(k % 10)>>

\* Number.prototype.toFixed: the nearest multiple of 10^-f, the larger one on a
\* tie, of the magnitude; "Infinity" for an infinity
ToFixed(x, f) ==
    IF x.t = "inf"
    THEN (IF x.n < 0 THEN <<"-">> ELSE <<>>)
         \o <<"I", "n", "f", "i", "n", "i", "t", "y">>
    ELSE LET k == (2 * Abs(x.n) * Pow10(f) + x.d) \div (2 * x.d)
         IN  (IF x.n < 0 THEN <<"-">> ELSE <<>>)
             \o NatText(k \div Pow10(f))
             \o (IF f > 0 THEN <<".">> \o FracText(k % Pow10(f), f) ELSE <<>>)

FormatNum(val, decimals) ==
    IF val = NullV \/ IsNaN(val) THEN <<"-">>
    ELSE Replace(ToFixed(val, decimals), ".", ",")

(***************************************************************************)
(* handleDownloadExcel: the four sheets, each a list of rows of cells      *)
(***************************************************************************)
\* devA !== null ? formatNum(devA) : ""
ExportCell(v, decimals) == IF v # NullV THEN FormatNum(v, decimals) ELSE Empty

TtrRow(row) ==
    LET d == RowData(row.id) IN
    <<row.label, Get(d, "ratioPercent"), Get(d, "ratedRatio"),
      Get(d, "phaseA"), ExportCell(Deviation(row.id, "phaseA"), 3),
      Get(d, "phaseB"), ExportCell(Deviation(row.id, "phaseB"), 3),
      Get(d, "phaseC"), ExportCell(Deviation(row.id, "phaseC"), 3)>>

TtrData ==
    << <<"PLANILLA DE ENSAYOS - TTR">>,
       <<"Cliente:", headerInfo.client, "Fecha:", headerInfo.date>>,
       <<"Nº Serie:", headerInfo.serialNumber, "Nº Fab:",
         headerInfo.manufacturingNumber>>,
       <<>>,
       <<"Tap", "Ratio %", "Rated Ratio", "Ph A Meas", "Dev A %", "Ph B Meas",
         "Dev B %", "Ph C Meas", "Dev C %">> >>
    \o (LET rows == tapRows IN [i \in 1..Len(rows) |-> TtrRow(rows[i])])

ResRow(row) ==
    LET d == RowData(row.id) IN
    <<row.label,
      Get(d, "resConn1Meas"), ExportCell(Corrected(row.id, "resConn1Meas"), 4),
      Get(d, "resConn2Meas"), ExportCell(Corrected(row.id, "resConn2Meas"), 4),
      Get(d, "resConn3Meas"), ExportCell(Corrected(row.id, "resConn3Meas"), 4)>>

ResData ==
    << <<"PLANILLA DE ENSAYOS - RESISTENCIA">>,
       <<>>,
       <<"Tap",
         resistanceSettings.conn1Name \o <<" (Meas)">>,
         resistanceSettings.conn1Name \o <<" (Corr)">>,
         resistanceSettings.conn2Name \o <<" (Meas)">>,
         resistanceSettings.conn2Name \o <<" (Corr)">>,
         resistanceSettings.conn3Name \o <<" (Meas)">>,
         resistanceSettings.conn3Name \o <<" (Corr)">> >> >>
    \o (LET rows == tapRows IN [i \in 1..Len(rows) |-> ResRow(rows[i])])

TgRow(row) ==
    <<Get(row, "mode"), Get(row, "injection"), Get(row, "measurement"),
      Get(row, "guard"), Get(row, "testVoltage"), Get(row, "tgPercent"),
      Get(row, "capacitance")>>

TgHeaderRows ==
    << <<"PLANILLA DE ENSAYOS - TANGENTE DELTA">>,
       <<>>,
       <<"Modo", "Inyección", "Medición", "Guarda", "Tensión Ensayo", "TG (%)",
         "Cx (pF)">> >>

\* (variant: rows without a reading are left out)
TgDataSkippingBlank ==
    TgHeaderRows
    \o SelectSeq([i \in 1..Len(tgDeltaData) |-> TgRow(tgDeltaData[i])],
                 LAMBDA r : r[6] # Undefined)

TgData == TgHeaderRows \o [i \in 1..Len(tgDeltaData) |-> TgRow(tgDeltaData[i])]

InsRow(row) ==
    <<Get(row, "injection"), Get(row, "measurement"), Get(row, "guard"),
      Get(row, "val30s"), Get(row, "val1m"), Get(row, "val2m"),
      Get(row, "val3m"), Get(row, "val4m"), Get(row, "val5m"),
      Get(row, "val6m"), Get(row, "val7m"), Get(row, "val8m"),
      Get(row, "val9m"), Get(row, "val10m"),
      ExportCell(Dar(row), 2), ExportCell(Pi(row), 2),
      GetStatusIP(Pi(row)).label>>

InsHeaderRows ==
    << <<"PLANILLA DE ENSAYOS - RESISTENCIA DE AISLACIÓN (GΩ)">>,
       <<>>,
       <<"Inyección", "Medición", "Guarda", "30\"", "1'", "2'", "3'", "4'",
         "5'", "6'", "7'", "8'", "9'", "10'", "RAD (DAR)", "IP (PI)",
         "Estado IP">> >>

InsData ==
    InsHeaderRows \o [i \in 1..Len(insulationData) |-> InsRow(insulationData[i])]

\* window.XLSX is set once the script has loaded; before that the handler
\* only alerts
HandleDownloadExcel(loaded) ==
    /\ editorOpen
    /\ workbook' =
        IF loaded
        THEN [name |-> IF Falsy(headerInfo.serialNumber) THEN <<"S", "N">>
                       ELSE headerInfo.serialNumber,
              ttr |-> TtrData, res |-> ResData, tg |-> TgData, ins |-> InsData]
        ELSE workbook
    /\ UNCHANGED <<now, projects, activeProjectId, editorVars, saveVars,
                   histVars, delivered, user, repo, lastConfirm, lastChange, dashVars>>

(***************************************************************************)
(* The project list subscription                                           *)
(***************************************************************************)
ProjectIds == {<<"p", ToString(i)>> : i \in 1..MaxProjects}
Stamps == 0..MaxStamp

\* a document of the collection, as handleCreateProject and the editor write it
Doc(id, stamp) == [StoredProject EXCEPT !.id = id, !.lastModified = stamp]

InsertAt(docs, k, x) == SubSeq(docs, 1, k - 1) \o <<x>> \o SubSeq(docs, k, Len(docs))

RemoveAt(docs, k) == SubSeq(docs, 1, k - 1) \o SubSeq(docs, k + 1, Len(docs))

\* snapshot.docs after one change of the collection: a document added,
\* removed or rewritten with another lastModified
Snapshots(docs) ==
    {InsertAt(docs, k, Doc(id, st)) :
        k \in 1..(Len(docs) + 1), id \in ProjectIds \ DocIds(docs), st \in Stamps}
    \cup {RemoveAt(docs, k) : k \in 1..Len(docs)}
    \cup {[docs EXCEPT ![k].lastModified = st] : k \in 1..Len(docs), st \in Stamps}

\* (variant: the comparator is a - b)
SortedInsertAscending(sorted, p) ==
    LET before == {i \in 1..Len(sorted) :
                     sorted[i].lastModified <= p.lastModified}
        k == IF before = {} THEN 0
             ELSE CHOOSE i \in before : \A j \in before : j <= i
    IN  InsertAt(sorted, k + 1, p)

\* the place a stable sort with comparator b.lastModified - a.lastModified
\* gives p among the elements that came before it
SortedInsert(sorted, p) ==
    LET after == {i \in 1..Len(sorted) :
                    sorted[i].lastModified < p.lastModified}
        k == IF after = {} THEN Len(sorted) + 1
             ELSE CHOOSE i \in after : \A j \in after : i <= j
    IN  InsertAt(sorted, k, p)

RECURSIVE SortByLastModified(_)
\* projectsData.sort((a, b) => new Date(b.lastModified) - new Date(a.lastModified))
SortByLastModified(docs) ==
    IF docs = <<>> THEN <<>>
    ELSE SortedInsert(SortByLastModified(SubSeq(docs, 1, Len(docs) - 1)),
                      docs[Len(docs)])

\* the onSnapshot callback, with the collection of the shared scope holding
\* the delivered documents; App re-renders with the new list: the editor is
\* unmounted when the active project is no longer listed, and mounted when
\* the 'Error' view's project is now listed
Deliver(docs) ==
    /\ projects' = SortByLastModified(docs)
    /\ delivered' = docs
    /\ repo' = [repo EXCEPT ![SHARED_UID] = {docs[i] : i \in 1..Len(docs)}]
    /\ IF editorOpen /\ activeProjectId \notin DocIds(docs)
       THEN /\ Unmount
            /\ UNCHANGED <<lastMutationAt, lastWrite, unwritten, failedUnsaved,
                           assignedTg, assignedIns>>
       ELSE IF errorShown /\ activeProjectId \in DocIds(docs)
       THEN /\ Mount(Find(SortByLastModified(docs), activeProjectId))
            /\ UNCHANGED inflight
       ELSE UNCHANGED <<editorVars, isSaving, timeoutId, timers, inflight,
                        lastMutationAt, burstLen, burstWrites, lastWrite,
                        unwritten, failedUnsaved, assignedTg, assignedIns,
                        resizeFrom, lastConfirm, lastChange>>
    /\ UNCHANGED <<now, activeProjectId, stored, edits, workbook, user,
                   dashVars>>

\* snapshot.docs of the shared collection: its documents in any order
Listings(docs) ==
    {q \in [1..Cardinality(docs) -> docs] :
        \A i, j \in 1..Cardinality(docs) : q[i] = q[j] => i = j}

\* a project another session wrote to the shared collection
OtherProject == Doc(<<"p", "3">>, 0)

\* the snapshots the dashboard is given: the shared collection as it is, or
\* after another session added its project
DashboardSnapshots ==
    Listings(repo[SHARED_UID]) \cup Listings(repo[SHARED_UID] \cup {OtherProject})

\* the snapshots the subscription can deliver: the shared collection as it
\* is, or after another session deleted one of its documents
RepoSnapshots ==
    Listings(repo[SHARED_UID])
    \cup {RemoveAt(l, k) : l \in Listings(repo[SHARED_UID]),
                          k \in 1..Cardinality(repo[SHARED_UID])}

(***************************************************************************)
(* App: creating and deleting projects                                     *)
(***************************************************************************)
\* a sample of the values the ten generateId() calls for the rows of a new
\* project return: the ids of the id space in turn
RowIdDraws ==
    {[k \in 1..(DefaultTgRows + DefaultInsRows) |->
        "r" \o ToString((k % NumIds) + 1)]}

\* a sample of the values generateId() returns for newId: the id of a listed
\* project, and one no project has
NewIds == {StoredProject.id, <<"p", "2">>}

\* newProject of handleCreateProject
NewProject(newId, draws) ==
    [id |-> newId, lastModified |-> now, tapRange |-> DefaultTapRange,
     headerInfo |-> DefaultHeaderInfo, data |-> EmptyObj,
     resistanceSettings |-> DefaultResistanceSettings,
     tgDeltaData |-> [k \in 1..DefaultTgRows |-> NewRow(draws[k])],
     insulationData |->
        [k \in 1..DefaultInsRows |-> NewRow(draws[DefaultTgRows + k])]]

\* onCreate: setDoc(doc(db, ..., 'users', user.uid, 'projects', newId),
\* newProject) and, once it resolved, setActiveProjectId(newId); the write is
\* taken to settle before the next event.  App then renders the editor when
\* the list holds newId and the 'Error' view when it does not.
HandleCreateProject(newId, draws, ok) ==
    /\ dashboardShown
    /\ Cardinality(repo[user]) <= MaxCreates
    /\ IF ok
       THEN /\ repo' = [repo EXCEPT ![user] = Upsert(@, NewProject(newId, draws))]
            /\ activeProjectId' = newId
            /\ confirmDeleteId' = Null
            /\ confirmDeadline' = NoDeadline
            /\ IF newId \in DocIds(projects)
               THEN Mount(Find(projects, newId))
               ELSE UNCHANGED <<editorVars, isSaving, timeoutId, timers,
                                lastMutationAt, burstLen, burstWrites,
                                lastWrite, unwritten, failedUnsaved,
                                assignedTg, assignedIns, resizeFrom,
                                lastConfirm, lastChange>>
            /\ UNCHANGED <<now, projects, inflight, stored, edits, outVars,
                           user, deleteCalls>>
       ELSE UNCHANGED vars

\* onDelete: deleteDoc(doc(db, ..., 'users', user.uid, 'projects', id)); the
\* dashboard is shown, so activeProjectId is null and differs from id
HandleDeleteProject(id, ok) ==
    /\ repo' = IF ok THEN [repo EXCEPT ![user] = {d \in @ : d.id # id}]
               ELSE repo
    /\ deleteCalls' = Append(deleteCalls, id)

\* (variant: the first click on the button already calls onDelete)
ClickDeleteAtOnce(i, ok) ==
    /\ dashboardShown
    /\ i \in 1..Len(projects)
    /\ Len(deleteCalls) < MaxDeletes
    /\ HandleDeleteProject(projects[i].id, ok)
    /\ UNCHANGED <<now, projects, activeProjectId, editorVars, saveVars,
                   histVars, outVars, user, lastConfirm, lastChange,
                   confirmDeleteId, confirmDeadline>>

\* a click on the delete button of the i-th card: onDelete when the card is
\* the armed one, else the card is armed and the effect starts its timer
\* (after clearing the timer of the card armed before)
ClickDelete(i, ok) ==
    /\ dashboardShown
    /\ i \in 1..Len(projects)
    /\ IF confirmDeleteId = projects[i].id
       THEN /\ Len(deleteCalls) < MaxDeletes
            /\ HandleDeleteProject(projects[i].id, ok)
            /\ UNCHANGED <<confirmDeleteId, confirmDeadline>>
       ELSE /\ confirmDeleteId' = projects[i].id
            /\ confirmDeadline' = now + ConfirmMs
            /\ UNCHANGED <<repo, deleteCalls>>
    /\ UNCHANGED <<now, projects, activeProjectId, editorVars, saveVars,
                   histVars, outVars, user, lastConfirm, lastChange>>

\* the arming timer's callback: setConfirmDeleteId(null)
ConfirmTimeout ==
    /\ dashboardShown
    /\ confirmDeadline # NoDeadline
    /\ now = confirmDeadline
    /\ confirmDeleteId' = Null
    /\ confirmDeadline' = NoDeadline
    /\ UNCHANGED <<now, projects, activeProjectId, editorVars, saveVars,
                   histVars, outVars, user, repo, lastConfirm, lastChange,
                   deleteCalls>>

(***************************************************************************)
(* Specification of the editor session with its persistence: the inputs of *)
(* the handlers are one sample each, time and the repository are free      *)
(***************************************************************************)
SampleTapRanges == {0, TapOptions - 1}
SampleText == <<"1", ".", "5">>

Next ==
    \/ \E i \in 1..Len(projects) : OpenEditor(i)
    \/ CloseEditor
    \/ edits < MaxEdits /\ \E n \in SampleTapRanges : SetTapRange(n)
    \/ edits < MaxEdits /\ HandleInputChange("neutral", "phaseA", SampleText)
    \/ edits < MaxEdits /\ AddTgDeltaRow
    \/ edits < MaxEdits /\ AddInsulationRow
    \/ edits < MaxEdits /\ SetHeaderInfo("client", SampleText)
    \/ edits < MaxEdits /\ SetResistanceSettings("measuredTemp", SampleText)
    \/ Advance
    \/ \E t \in timers : TimerFire(t)
    \/ WriteResolved
    \/ WriteRejected

Spec == Init /\ [][Next]_vars

(***************************************************************************)
(* Specification of the sheet: every handler of the editor, with the texts *)
(* a user can type or paste, at one instant (no timer fires)               *)
(***************************************************************************)
SheetTapRanges == 0..(TapOptions - 1)
SheetTapIds == {"neutral", "pos-" \o ToString(DefaultTapRange), "neg-1"}
SheetTapFields == {"ratedRatio", "phaseA", "resConn1Meas"}
SheetTgFields == {"tgPercent", "guard"}
SheetInsFields == {"val1m", "val10m", "measurement"}
SheetTexts == {Empty, <<"x">>, <<"1", ".", "5">>, <<"1", ".", "2", ".", "3">>}

NextSheet ==
    \/ \E i \in 1..Len(projects) : OpenEditor(i)
    \/ edits < MaxSheetEdits /\ \E n \in SheetTapRanges : SetTapRange(n)
    \/ edits < MaxSheetEdits
        /\ \E id \in SheetTapIds, f \in SheetTapFields, v \in SheetTexts :
            HandleInputChange(id, f, v)
    \/ edits < MaxSheetEdits
        /\ \E id \in RowIds(tgDeltaData), f \in SheetTgFields, v \in SheetTexts :
            HandleTgDeltaChange(id, f, v)
    \/ edits < MaxSheetEdits /\ AddTgDeltaRow
    \/ edits < MaxSheetEdits
        /\ \E id \in RowIds(tgDeltaData) : RemoveTgDeltaRow(id, TRUE)
    \/ edits < MaxSheetEdits
        /\ \E id \in RowIds(insulationData), f \in SheetInsFields,
              v \in SheetTexts :
            HandleInsulationChange(id, f, v)
    \/ edits < MaxSheetEdits /\ AddInsulationRow
    \/ edits < MaxSheetEdits
        /\ \E id \in RowIds(insulationData) : RemoveInsulationRow(id, TRUE)
    \/ edits < MaxSheetEdits
        /\ \E f \in {"client"}, v \in SheetTexts : SetHeaderInfo(f, v)
    \/ edits < MaxSheetEdits
        /\ \E f \in {"measuredTemp", "conn1Name"}, v \in SheetTexts :
            SetResistanceSettings(f, v)

SpecSheet == Init /\ [][NextSheet]_vars

(***************************************************************************)
(* Specification of the derivations: the editor's fields take the numeric  *)
(* texts below and every render derives and classifies from them           *)
(***************************************************************************)
RatedTexts == {Empty, <<"x">>, <<"0">>, <<"1", "0", "0">>}
PhaseTexts ==
    {Empty, <<"x">>, <<"1", "0", "1">>, <<"1", "0", "0", ",", "5">>,
     <<"9", "9", ".", "5">>, <<"1", "0", "2">>}
ResistanceTexts == {Empty, <<"x">>, <<"0">>, <<"1", "0">>}
TempTexts == {Empty, <<"x">>, <<"-", "2", "3", "5">>, <<"2", "5">>}
TgTexts ==
    {Empty, <<"x">>, <<"0">>, <<"0", ",", "5">>, <<"0", ".", "4", "9">>,
     <<"0", ",", "5", "1">>}
Val30sTexts == {Empty, <<"x">>, <<"0">>, <<"1">>}
Val1mTexts == {Empty, <<"x">>, <<"0">>, <<"2">>, <<"5">>}
Val10mTexts == {Empty, <<"x">>, <<"5">>, <<"5", ",", "0", "1">>}

NextCalc ==
    \/ \E i \in 1..Len(projects) : OpenEditor(i)
    \/ edits < MaxCalcEdits
        /\ \/ \E v \in RatedTexts : HandleInputChange("neutral", "ratedRatio", v)
           \/ \E v \in PhaseTexts : HandleInputChange("neutral", "phaseA", v)
           \/ \E v \in ResistanceTexts :
                HandleInputChange("neutral", "resConn1Meas", v)
    \/ edits < MaxCalcEdits
        /\ \E f \in {"measuredTemp", "refTemp"}, v \in TempTexts :
            SetResistanceSettings(f, v)
    \/ edits < MaxCalcEdits
        /\ \E id \in RowIds(tgDeltaData), v \in TgTexts :
            HandleTgDeltaChange(id, "tgPercent", v)
    \/ edits < MaxCalcEdits
        /\ \E id \in RowIds(insulationData) :
            \/ \E v \in Val30sTexts : HandleInsulationChange(id, "val30s", v)
            \/ \E v \in Val1mTexts : HandleInsulationChange(id, "val1m", v)
            \/ \E v \in Val10mTexts : HandleInsulationChange(id, "val10m", v)

SpecCalc == Init /\ [][NextCalc]_vars

(***************************************************************************)
(* Specification of the export: the row handlers of the two row            *)
(* collections and the download                                            *)
(***************************************************************************)
NextExport ==
    \/ \E i \in 1..Len(projects) : OpenEditor(i)
    \/ edits < MaxSheetEdits
        /\ \E id \in RowIds(tgDeltaData), f \in SheetTgFields, v \in SheetTexts :
            HandleTgDeltaChange(id, f, v)
    \/ edits < MaxSheetEdits /\ AddTgDeltaRow
    \/ edits < MaxSheetEdits
        /\ \E id \in RowIds(tgDeltaData) : RemoveTgDeltaRow(id, TRUE)
    \/ edits < MaxSheetEdits
        /\ \E id \in RowIds(insulationData), f \in SheetInsFields,
              v \in SheetTexts :
            HandleInsulationChange(id, f, v)
    \/ edits < MaxSheetEdits /\ AddInsulationRow
    \/ edits < MaxSheetEdits
        /\ \E id \in RowIds(insulationData) : RemoveInsulationRow(id, TRUE)
    \/ \E loaded \in BOOLEAN : HandleDownloadExcel(loaded)

SpecExport == Init /\ [][NextExport]_vars

(***************************************************************************)
(* Specification of the row handlers: every handler of the two row         *)
(* collections is called with any id of the id space, in a collection or   *)
(* not, every confirm dialog is answered either way, and the history keeps *)
(* the field changes asked for                                             *)
(***************************************************************************)
NextRows ==
    \/ \E i \in 1..Len(projects) : OpenEditor(i)
    \/ edits < MaxSheetEdits
        /\ \E id \in IdSpace, f \in SheetTgFields, v \in SheetTexts :
            HandleTgDeltaChangeLogged(id, f, v)
    \/ edits < MaxSheetEdits /\ AddTgDeltaRow
    \/ edits < MaxSheetEdits
        /\ \E id \in IdSpace, c \in BOOLEAN : RemoveTgDeltaRow(id, c)
    \/ edits < MaxSheetEdits
        /\ \E id \in IdSpace, f \in SheetInsFields, v \in SheetTexts :
            HandleInsulationChangeLogged(id, f, v)
    \/ edits < MaxSheetEdits /\ AddInsulationRow
    \/ edits < MaxSheetEdits
        /\ \E id \in IdSpace, c \in BOOLEAN : RemoveInsulationRow(id, c)

SpecRows == Init /\ [][NextRows]_vars

(***************************************************************************)
(* Specification of the project list: the subscription delivers snapshots  *)
(* while the user opens and leaves projects                                *)
(***************************************************************************)
NextList ==
    \/ \E docs \in Snapshots(delivered) : Deliver(docs)
    \/ \E i \in 1..Len(projects) : OpenEditor(i)
    \/ CloseEditor

SpecList == Init /\ [][NextList]_vars

(***************************************************************************)
(* Specification of the application with its repository: any account       *)
(* creates, opens and leaves projects while time passes, the editor's       *)
(* writes settle and the subscription delivers the shared collection       *)
(***************************************************************************)
NextRepo ==
    \/ \E i \in 1..Len(projects) : OpenEditor(i)
    \/ CloseEditor
    \/ LeaveError
    \/ \E newId \in NewIds, draws \in RowIdDraws, ok \in BOOLEAN :
        HandleCreateProject(newId, draws, ok)
    \/ Advance
    \/ \E t \in timers : TimerFire(t)
    \/ WriteResolved
    \/ \E docs \in Listings(repo[SHARED_UID]) : Deliver(docs)

SpecRepo == InitAnyUser /\ [][NextRepo]_vars

(***************************************************************************)
(* Specification of saving and reloading: the account the subscription     *)
(* reads resizes, leaves and reopens its project while time passes, writes *)
(* settle and the subscription delivers the shared collection              *)
(***************************************************************************)
NextReload ==
    \/ \E i \in 1..Len(projects) : OpenEditor(i)
    \/ CloseEditor
    \/ edits < MaxEdits /\ \E n \in SampleTapRanges : SetTapRange(n)
    \/ Advance
    \/ \E t \in timers : TimerFire(t)
    \/ WriteResolved
    \/ \E docs \in RepoSnapshots : Deliver(docs)

SpecReload == InitAs(SHARED_UID) /\ [][NextReload]_vars

(***************************************************************************)
(* Specification of the dashboard: the delete buttons are clicked while    *)
(* time passes and the subscription delivers snapshots                     *)
(***************************************************************************)
NextDashboard ==
    \/ \E i \in 1..Len(projects), ok \in BOOLEAN : ClickDelete(i, ok)
    \/ ConfirmTimeout
    \/ AdvanceTo(MaxDashboardTime)
    \/ \E docs \in DashboardSnapshots : Deliver(docs)

SpecDashboard == InitAnyUser /\ [][NextDashboard]_vars

(***************************************************************************)
(* Properties                                                              *)
(***************************************************************************)
NoDuplicates(q) == \A i, j \in 1..Len(q) : q[i] = q[j] => i = j

IdsOf(rows) == [i \in 1..Len(rows) |-> rows[i]["id"]]

SameSheet(p) ==
    /\ p.tapRange = tapRange
    /\ p.data = data
    /\ p.tgDeltaData = tgDeltaData
    /\ p.insulationData = insulationData
    /\ p.headerInfo = headerInfo
    /\ p.resistanceSettings = resistanceSettings

SingleWriteInFlight == Len(inflight) <= 1

\* C3: no edit is dropped: once the editing session is over (the editor is
\* unmounted and its timer cancelled, so that it issues no further write),
\* every mutation it applied has been carried by a write that was issued.
NoEditDropped == ~editorOpen => ~unwritten

\* C4: after a write of the mounted editor failed, and until a later write
\* succeeds, the saving observable does not show 'saved' (isSaving = FALSE).
FailureKeepsUnsaved == (editorOpen /\ failedUnsaved) => isSaving

\* C5 as stated: the lastModified of every write is the instant the write was
\* issued.
LastModifiedIsCommitInstant ==
    \A i \in 1..Len(inflight) :
        inflight[i].project.lastModified = inflight[i].issuedAt

\* C5 as amended: the lastModified of every write is the instant of the effect
\* run (the mount or the mutation) that scheduled it, which is 1000 ms before
\* the write is issued.
LastModifiedIsEffectInstant ==
    /\ \A i \in 1..Len(inflight) :
        inflight[i].project.lastModified + DebounceMs = inflight[i].issuedAt
    /\ \A t \in timers :
        t.project.lastModified + DebounceMs = t.deadline
    /\ (editorOpen /\ timeoutId \in timers) =>
        timeoutId.project.lastModified = lastMutationAt

MutationWriteInFlight ==
    /\ editorOpen
    /\ burstLen >= 1
    /\ burstWrites = 1
    /\ Len(inflight) >= 1
    /\ inflight[Len(inflight)].project.lastModified = lastMutationAt
    /\ lastMutationAt > 0

VisibleIds(n) == {TapRows(n)[i].id : i \in 1..Len(TapRows(n))}

\* C6: within an editing session no step removes a key of data or a field of
\* an entry, a change of tapRange leaves data as it is, a step that alters an
\* entry alters that entry alone and nothing else of the sheet, and after
\* tapRange went N -> M -> N with M < N and no field edit in between, data is
\* what it was before the first resize.
TapDataPreserved ==
    /\ [][(editorOpen /\ editorOpen') =>
            /\ \A k \in DOMAIN data :
                /\ k \in DOMAIN data'
                /\ DOMAIN data[k] \subseteq DOMAIN data'[k]
                /\ data'[k] # data[k] =>
                    /\ \A j \in DOMAIN data \ {k} : data'[j] = data[j]
                    /\ UNCHANGED <<tapRange, tgDeltaData, insulationData,
                                   headerInfo, resistanceSettings>>
            /\ tapRange' # tapRange => data' = data]_vars
    /\ [](( /\ Len(resizeFrom.trail) = 3
            /\ resizeFrom.trail[1] = resizeFrom.trail[3]
            /\ resizeFrom.trail[2] < resizeFrom.trail[1])
          => data = resizeFrom.data)

ResizedDownAndBack ==
    /\ editorOpen
    /\ Len(resizeFrom.trail) = 3
    /\ resizeFrom.trail[1] = resizeFrom.trail[3]
    /\ resizeFrom.trail[2] < resizeFrom.trail[1]
    /\ tapRange = resizeFrom.trail[3]
    /\ \E k \in DOMAIN data : k \notin VisibleIds(resizeFrom.trail[2])

\* C7: the row ids of tgDeltaData are pairwise distinct, those of
\* insulationData are pairwise distinct, and no id is given to two rows that
\* were ever created in the same collection.
RowIdsUnique ==
    /\ NoDuplicates(IdsOf(tgDeltaData))
    /\ NoDuplicates(IdsOf(insulationData))
    /\ NoDuplicates(assignedTg)
    /\ NoDuplicates(assignedIns)

NumericText(obj, fields) ==
    \A f \in fields \cap DOMAIN obj : ~HasPeriod(obj[f])

\* C8: no stored numeric field holds a period.
NoPeriodStored ==
    /\ \A k \in DOMAIN data : NumericText(data[k], TapFields)
    /\ \A i \in 1..Len(tgDeltaData) : NumericText(tgDeltaData[i], TgNumericFields)
    /\ \A i \in 1..Len(insulationData) :
        NumericText(insulationData[i], InsNumericFields)
    /\ NumericText(resistanceSettings, SettingNumericFields)

\* C9: for the tapRange N of the editor, the generated list has 2N+1 rows:
\* row N+1-k is {pos-k, '+k'} for k in 1..N, row N+1 is {neutral,
\* '0 (Nominal)'}, row N+1+k is {neg-k, '-k'}; the ids are pairwise distinct.
TapRowsShape ==
    editorOpen =>
        LET rows == tapRows IN
        /\ tapRange \in 0..(TapOptions - 1)
        /\ Len(rows) = 2 * tapRange + 1
        /\ \A k \in 1..tapRange :
            /\ rows[tapRange + 1 - k] =
                [id |-> "pos-" \o ToString(k), label |-> "+" \o ToString(k)]
            /\ rows[tapRange + 1 + k] =
                [id |-> "neg-" \o ToString(k), label |-> "-" \o ToString(k)]
        /\ rows[tapRange + 1] = [id |-> "neutral", label |-> "0 (Nominal)"]
        /\ NoDuplicates([i \in 1..Len(rows) |-> rows[i].id])

WidestTapRange ==
    /\ editorOpen
    /\ tapRange = TapOptions - 1
    /\ Len(tapRows) = 2 * TapOptions - 1
    /\ tapRows[1].id = "pos-16"

\* C10: a derivation whose measured input is blank or absent is null (and so
\* shown as '-' in the NEUTRAL class): the phase reading of a deviation, the
\* reading of a corrected resistance, val1m of the DAR, val10m of the PI.
BlankIsNoValue ==
    editorOpen =>
        /\ \A i \in 1..Len(tapRows) :
            LET id == tapRows[i].id IN
            /\ \A ph \in {"phaseA", "phaseB", "phaseC"} :
                Falsy(Get(RowData(id), ph)) =>
                    /\ Deviation(id, ph) = NullV
                    /\ GetStatusTTR(Deviation(id, ph)) = "NEUTRAL"
            /\ \A c \in {"resConn1Meas", "resConn2Meas", "resConn3Meas"} :
                Falsy(Get(RowData(id), c)) => Corrected(id, c) = NullV
        /\ \A i \in 1..Len(insulationData) :
            /\ Falsy(Get(insulationData[i], "val1m")) =>
                Dar(insulationData[i]) = NullV
            /\ Falsy(Get(insulationData[i], "val10m")) =>
                /\ Pi(insulationData[i]) = NullV
                /\ GetStatusIP(Pi(insulationData[i])).class = "NEUTRAL"

(***************************************************************************)
(* The derivations and classifications of one render                       *)
(***************************************************************************)
Phases == {"phaseA", "phaseB", "phaseC"}
Connections == {"resConn1Meas", "resConn2Meas", "resConn3Meas"}
TapIds == {tapRows[i].id : i \in 1..Len(tapRows)}
InsRows == {insulationData[i] : i \in 1..Len(insulationData)}
TgRows == {tgDeltaData[i] : i \in 1..Len(tgDeltaData)}

DerivedValues ==
    {Deviation(id, ph) : id \in TapIds, ph \in Phases}
    \cup {Corrected(id, c) : id \in TapIds, c \in Connections}
    \cup {Dar(row) : row \in InsRows}
    \cup {Pi(row) : row \in InsRows}

\* a text that is not blank and does not parse to a number
Malformed(v) == ~Falsy(v) /\ IsNaN(ParseNum(v))

\* x = a / b for numbers x, a, b with b # 0, without dividing
IsQuotient(x, a, b) == IsNum(x) /\ x.n * (a.d * b.n) = x.d * (a.n * b.d)

\* C11: no derivation returns NaN or an infinite value: every result of
\* deviationPercent, resistanceCorrected, dielectricAbsorptionRatio and
\* polarizationIndex is None or a finite number, also when a division by zero
\* arises (measuredTemp = -235).
DerivationsNeverNaNOrInfinite ==
    editorOpen => \A v \in DerivedValues : v = NullV \/ IsNum(v)

\* C12: malformed numeric text in a classified field is classified NEUTRAL
\* (placeholder '-'), never PASS or FAIL: the measured phase of a deviation,
\* tgPercent, and the readings of the polarization index.
MalformedIsNeutral ==
    editorOpen =>
        /\ \A id \in TapIds, ph \in Phases :
            (Malformed(Get(RowData(id), ph))
             \/ Malformed(Get(RowData(id), "ratedRatio")))
                => GetStatusTTR(Deviation(id, ph)) = "NEUTRAL"
        /\ \A row \in TgRows :
            Malformed(Get(row, "tgPercent"))
                => GetStatusTG(Get(row, "tgPercent")) = "NEUTRAL"
        /\ \A row \in InsRows :
            (Malformed(Get(row, "val10m")) \/ Malformed(Get(row, "val1m")))
                => GetStatusIP(Pi(row)) = [class |-> "NEUTRAL", label |-> "-"]

\* C13: deviationPercent(measured, rated) is None when measured or rated does
\* not parse or rated parses to 0, and otherwise (measured - rated) / rated *
\* 100 of the parsed values; ('101','100') gives 1 and ('100,5','100') gives
\* 0.5.
DeviationIsRelativeError ==
    /\ CalculateDeviation(<<"1", "0", "1">>, <<"1", "0", "0">>) = Int2Num(1)
    /\ CalculateDeviation(<<"1", "0", "0", ",", "5">>, <<"1", "0", "0">>)
        = Rat(1, 2)
    /\ editorOpen =>
        \A id \in TapIds, ph \in Phases :
            LET m == ParseNum(Get(RowData(id), ph))
                r == ParseNum(Get(RowData(id), "ratedRatio"))
                dev == Deviation(id, ph)
            IN  IF IsNaN(m) \/ IsNaN(r) \/ r.n = 0 THEN dev = NullV
                ELSE IsQuotient(dev, Mul(Sub(m, r), Int2Num(100)), r)

DeviationOfOnePercent ==
    /\ editorOpen
    /\ Get(RowData("neutral"), "phaseA") = <<"1", "0", "1">>
    /\ Get(RowData("neutral"), "ratedRatio") = <<"1", "0", "0">>
    /\ Deviation("neutral", "phaseA") = Int2Num(1)

\* C14: resistanceCorrected(measured) is None when the measured value,
\* measuredTemp or refTemp does not parse, and otherwise
\* measured * (235 + refTemp) / (235 + measuredTemp) with the current
\* resistanceSettings, the constant being 235 in every call; ('10', 20, 75)
\* gives 10 * 310 / 255.
ResistanceIsTemperatureCorrected ==
    editorOpen =>
        \A id \in TapIds, c \in Connections :
            LET m == ParseNum(Get(RowData(id), c))
                t_meas == ParseNum(resistanceSettings.measuredTemp)
                t_ref == ParseNum(resistanceSettings.refTemp)
            IN  Corrected(id, c) =
                    IF IsNaN(m) \/ IsNaN(t_meas) \/ IsNaN(t_ref) THEN NullV
                    ELSE Div(Mul(m, Add(Int2Num(235), t_ref)),
                             Add(Int2Num(235), t_meas))

ResistanceCorrectedAtDefaults ==
    /\ editorOpen
    /\ Get(RowData("neutral"), "resConn1Meas") = <<"1", "0">>
    /\ resistanceSettings.measuredTemp = <<"2", "0">>
    /\ resistanceSettings.refTemp = <<"7", "5">>
    /\ Corrected("neutral", "resConn1Meas") = Rat(10 * 310, 255)

\* C15: dielectricAbsorptionRatio(val1m, val30s) is None when either does not
\* parse or val30s is 0 and otherwise val1m / val30s; polarizationIndex(val10m,
\* val1m) is None when either does not parse or val1m is 0 and otherwise
\* val10m / val1m; ('2','1') gives a ratio of 2.
RatiosAreQuotients ==
    /\ CalculateDAR(<<"2">>, <<"1">>) = Int2Num(2)
    /\ CalculateDAR(<<"2">>, <<"0">>) = NullV
    /\ editorOpen =>
        \A row \in InsRows :
            LET v30 == ParseNum(Get(row, "val30s"))
                v1 == ParseNum(Get(row, "val1m"))
                v10 == ParseNum(Get(row, "val10m"))
            IN  /\ IF IsNaN(v1) \/ IsNaN(v30) \/ v30.n = 0 THEN Dar(row) = NullV
                   ELSE IsQuotient(Dar(row), v1, v30)
                /\ IF IsNaN(v10) \/ IsNaN(v1) \/ v1.n = 0 THEN Pi(row) = NullV
                   ELSE IsQuotient(Pi(row), v10, v1)

AbsorptionRatioOfTwo ==
    /\ editorOpen
    /\ \E row \in InsRows :
        /\ Get(row, "val1m") = <<"2">>
        /\ Get(row, "val30s") = <<"1">>
        /\ Dar(row) = Int2Num(2)

\* C16: every deviation has exactly one TTR class: NEUTRAL iff it is None,
\* PASS iff its magnitude is at most 0.5 (0.5 and -0.5 included), FAIL iff
\* its magnitude exceeds 0.5.
TtrClassification ==
    editorOpen =>
        \A id \in TapIds, ph \in Phases :
            LET dev == Deviation(id, ph)
                class == GetStatusTTR(dev)
            IN  /\ class \in {"NEUTRAL", "PASS", "FAIL"}
                /\ class = "NEUTRAL" <=> dev = NullV
                /\ class = "PASS" <=>
                    (dev # NullV /\ IsNum(dev) /\ 2 * Abs(dev.n) <= dev.d)
                /\ class = "FAIL" <=>
                    (dev # NullV /\ IsNum(dev) /\ 2 * Abs(dev.n) > dev.d)

DeviationOnTheBoundary ==
    /\ editorOpen
    /\ Deviation("neutral", "phaseA") = Rat(-1, 2)
    /\ GetStatusTTR(Deviation("neutral", "phaseA")) = "PASS"

\* C17: the tangent-delta class of the raw tgPercent field is NEUTRAL iff the
\* field is blank, PASS iff it is not blank and its parsed value is below 0.5,
\* FAIL iff it is not blank and its parsed value is at least 0.5.
TgClassification ==
    editorOpen =>
        \A row \in TgRows :
            LET v == Get(row, "tgPercent")
                p == ParseNum(v)
                class == GetStatusTG(v)
            IN  /\ class = "NEUTRAL" <=> Falsy(v)
                /\ class = "PASS" <=> (~Falsy(v) /\ IsNum(p) /\ 2 * p.n < p.d)
                /\ class = "FAIL" <=> (~Falsy(v) /\ IsNum(p) /\ 2 * p.n >= p.d)

\* C18: the polarization-index status is NEUTRAL with label '-' iff PI is
\* None, PASS with label 'ACEPTABLE' iff PI > 1, FAIL with label
\* 'NO ACEPTABLE' iff PI <= 1 (exactly 1 is FAIL); the export writes that
\* label in the status column of the row.
PiClassification ==
    /\ [](editorOpen =>
            \A row \in InsRows :
                LET pi == Pi(row)
                    status == GetStatusIP(pi)
                IN  /\ status = [class |-> "NEUTRAL", label |-> "-"]
                        <=> pi = NullV
                    /\ status = [class |-> "PASS", label |-> "ACEPTABLE"]
                        <=> (IsNum(pi) /\ pi.n > pi.d)
                    /\ status = [class |-> "FAIL", label |-> "NO ACEPTABLE"]
                        <=> (IsNum(pi) /\ pi.n <= pi.d))
    /\ [][workbook' # workbook =>
            /\ Len(workbook'.ins) = Len(InsHeaderRows) + Len(insulationData)
            /\ \A i \in 1..Len(insulationData) :
                LET pi == Pi(insulationData[i])
                    label == workbook'.ins[Len(InsHeaderRows) + i][17]
                IN  /\ label = "-" <=> pi = NullV
                    /\ label = "ACEPTABLE" <=> (IsNum(pi) /\ pi.n > pi.d)
                    /\ label = "NO ACEPTABLE" <=> (IsNum(pi) /\ pi.n <= pi.d)]_vars

IndexOfOneExported ==
    /\ editorOpen
    /\ Len(insulationData) >= 1
    /\ Pi(insulationData[1]) = Int2Num(1)
    /\ workbook.ins = InsData
    /\ workbook.ins[Len(InsHeaderRows) + 1][17] = "NO ACEPTABLE"

\* C19: an export has exactly one TG Delta data row per element of
\* tgDeltaData and one Aislación data row per element of insulationData, in
\* the order of the collection, whatever rows were added, removed or edited.
ExportRowsFollowCollections ==
    [][workbook' # workbook =>
        /\ Len(workbook'.tg) = Len(TgHeaderRows) + Len(tgDeltaData)
        /\ \A i \in 1..Len(tgDeltaData) :
            LET cells == workbook'.tg[Len(TgHeaderRows) + i] IN
            /\ cells[4] = Get(tgDeltaData[i], "guard")
            /\ cells[6] = Get(tgDeltaData[i], "tgPercent")
        /\ Len(workbook'.ins) = Len(InsHeaderRows) + Len(insulationData)
        /\ \A i \in 1..Len(insulationData) :
            LET cells == workbook'.ins[Len(InsHeaderRows) + i] IN
            /\ cells[2] = Get(insulationData[i], "measurement")
            /\ cells[5] = Get(insulationData[i], "val1m")
            /\ cells[14] = Get(insulationData[i], "val10m")]_vars

ExportedAfterAddAndRemove ==
    /\ editorOpen
    /\ Len(assignedTg) = 2
    /\ Len(tgDeltaData) = 1
    /\ tgDeltaData[1]["id"] = assignedTg[2]
    /\ workbook.tg = TgData
    /\ Len(workbook.tg) = Len(TgHeaderRows) + 1

CountOf(list, p) == Cardinality({i \in 1..Len(list) : list[i] = p})

\* C20: after every subscription delivery the project list is the delivered
\* list sorted by lastModified descending: each element's lastModified is at
\* least that of the next one, and the list holds exactly the delivered
\* projects.
ProjectsSortedOnDelivery ==
    /\ \A i \in 1..(Len(projects) - 1) :
        projects[i].lastModified >= projects[i + 1].lastModified
    /\ Len(projects) = Len(delivered)
    /\ \A i \in 1..Len(delivered) :
        CountOf(projects, delivered[i]) = CountOf(delivered, delivered[i])

DeliveredOutOfOrder ==
    /\ Len(delivered) >= 2
    /\ \E i \in 1..(Len(delivered) - 1) :
        delivered[i].lastModified < delivered[i + 1].lastModified
    /\ projects # delivered

\* new is old with one row added at the end, a row that holds an id no row
\* of old has and no other field
AppendsFreshRow(old, new) ==
    /\ SubSeq(new, 1, Len(old)) = old
    /\ DOMAIN new[Len(new)] = {"id"}
    /\ new[Len(new)]["id"] \notin RowIds(old)

\* C21: a step of the open editor that makes a row collection one row longer
\* (addTgDeltaRow, addInsulationRow) keeps the rows it had, in their order,
\* puts after them one row that holds nothing but an id no existing row of the
\* collection has, and leaves the other collection as it was.
AddAppendsFreshRow ==
    [][editorOpen =>
        /\ Len(tgDeltaData') = Len(tgDeltaData) + 1 =>
            /\ AppendsFreshRow(tgDeltaData, tgDeltaData')
            /\ insulationData' = insulationData
        /\ Len(insulationData') = Len(insulationData) + 1 =>
            /\ AppendsFreshRow(insulationData, insulationData')
            /\ tgDeltaData' = tgDeltaData]_vars

\* the positions of rows whose row does not hold the id
KeptPositions(rows, id) == {i \in 1..Len(rows) : rows[i]["id"] # id}

\* new holds the rows of old that do not hold the id, each one as it was and
\* in the order they had
RemovesMatching(old, new, id) ==
    /\ Len(new) = Cardinality(KeptPositions(old, id))
    /\ \A j \in 1..Len(new) :
        \E i \in KeptPositions(old, id) :
            /\ Cardinality({k \in KeptPositions(old, id) : k <= i}) = j
            /\ new[j] = old[i]
    /\ id \notin RowIds(old) => new = old

\* C22: a call of removeTgDeltaRow(id) / removeInsulationRow(id) whose dialog
\* is confirmed takes the rows holding the id out of its collection and keeps
\* every other row and the order (the content is as it was when no row holds
\* the id), and leaves the other collection alone; a call whose dialog is
\* declined changes nothing of the editor state and schedules no commit.
RemoveOnlyWhenConfirmed ==
    [][editorOpen /\ lastConfirm' # NoConfirm =>
        IF lastConfirm'.confirmed
        THEN /\ lastConfirm'.collection = "tgDeltaData" =>
                /\ RemovesMatching(tgDeltaData, tgDeltaData', lastConfirm'.id)
                /\ insulationData' = insulationData
             /\ lastConfirm'.collection = "insulationData" =>
                /\ RemovesMatching(insulationData, insulationData',
                                   lastConfirm'.id)
                /\ tgDeltaData' = tgDeltaData
        ELSE UNCHANGED <<editorVars, saveVars, edits, unwritten>>]_vars

RowRemovedOnConfirm ==
    /\ editorOpen
    /\ lastConfirm.confirmed
    /\ lastConfirm.collection = "tgDeltaData"
    /\ tgDeltaData # <<>>
    /\ Len(tgDeltaData) < Len(assignedTg)
    /\ timeoutId \in timers

\* new is old with nothing but the named field replaced in the rows that hold
\* the id: their id and other fields, the other rows and the order are kept
OnlyFieldReplaced(old, new, id, field) ==
    /\ Len(new) = Len(old)
    /\ \A i \in 1..Len(old) :
        IF old[i]["id"] = id
        THEN /\ DOMAIN new[i] = DOMAIN old[i] \cup {field}
             /\ \A g \in DOMAIN old[i] \ {field} : new[i][g] = old[i][g]
        ELSE new[i] = old[i]
    /\ id \notin RowIds(old) => new = old

\* the rows that hold the id hold the text as it was passed
StoredVerbatim(rows, id, field, value) ==
    \A i \in 1..Len(rows) : rows[i]["id"] = id => rows[i][field] = value

\* C23: a call of handleTgDeltaChange / handleInsulationChange with (id, field,
\* value) replaces only that field of the row holding the id: the row's id and
\* other fields, every other row, the row order and the other collection stay;
\* a free-text field (mode, injection, measurement, guard) holds the value as
\* passed; a call whose id no row holds changes no row.
ChangeReplacesOneField ==
    [][editorOpen /\ lastChange' # NoChange =>
        /\ lastChange'.collection = "tgDeltaData" =>
            /\ OnlyFieldReplaced(tgDeltaData, tgDeltaData', lastChange'.id,
                                 lastChange'.field)
            /\ lastChange'.field \in TgTextFields =>
                StoredVerbatim(tgDeltaData', lastChange'.id,
                               lastChange'.field, lastChange'.value)
            /\ insulationData' = insulationData
        /\ lastChange'.collection = "insulationData" =>
            /\ OnlyFieldReplaced(insulationData, insulationData',
                                 lastChange'.id, lastChange'.field)
            /\ lastChange'.field \in InsTextFields =>
                StoredVerbatim(insulationData', lastChange'.id,
                               lastChange'.field, lastChange'.value)
            /\ tgDeltaData' = tgDeltaData]_vars

FreeTextStoredBesideOtherRow ==
    /\ editorOpen
    /\ lastChange.collection = "tgDeltaData"
    /\ lastChange.field = "guard"
    /\ lastChange.value = <<"1", ".", "5">>
    /\ Len(tgDeltaData) = 2
    /\ tgDeltaData[1]["id"] = lastChange.id
    /\ tgDeltaData[1] = [id |-> lastChange.id, guard |-> <<"1", ".", "5">>]
    /\ tgDeltaData[2]["id"] # lastChange.id
    /\ DOMAIN tgDeltaData[2] = {"id"}

\* C24: while the editor is open and no mutation was made since it was
\* opened, the saving observable is false, no commit timer is pending and no
\* write of this editor was issued or is in flight (so the stored lastModified
\* is the one the project was opened with).
OpenWithoutEditIsIdle ==
    editorOpen /\ burstLen = 0 =>
        /\ ~isSaving
        /\ timeoutId \notin timers
        /\ lastWrite = NoWrite
        /\ \A i \in 1..Len(inflight) : ~inflight[i].live

\* C25: whenever the editor is opened, its tapRange is the tapRange the listed
\* project holds (the one a committed and delivered write of the editor
\* stored), and it generates 2 * tapRange + 1 rows.
ReloadKeepsTapRange ==
    [][~editorOpen /\ editorOpen' =>
        /\ tapRange' = Find(projects', activeProjectId').tapRange
        /\ Len(TapRows(tapRange')) =
            2 * Find(projects', activeProjectId').tapRange + 1]_vars

\* C26: while the editor is open and its saving observable is false, no
\* debounce timer of the editor is pending and no write of the editor is
\* unresolved.
SavedMeansNothingOutstanding ==
    editorOpen /\ ~isSaving =>
        /\ timeoutId \notin timers
        /\ \A i \in 1..Len(inflight) : ~inflight[i].live

\* C27: while no editor is mounted (after onBack, or after the active project
\* left the delivered list) no debounce timer is pending, and a repository
\* write is started only by a mounted editor, for its own project; so after
\* the unmount the writes in flight can only settle.
UnmountCancelsTimer ==
    /\ [](~editorOpen => timers = {})
    /\ [][Len(inflight') > Len(inflight) =>
            /\ editorOpen
            /\ editorOpen'
            /\ inflight' = Append(inflight, inflight'[Len(inflight')])
            /\ inflight'[Len(inflight')].project.id = activeProjectId]_vars

VanishedWithPendingTimer ==
    /\ errorShown
    /\ unwritten
    /\ timers = {}
    /\ inflight # <<>>

\* C28: onDelete(id) is called only by a click on the card that is armed
\* (confirmDeleteId = id), and such a click leaves the arming as it is; a
\* click on any other card calls nothing and only arms that card, starting a
\* timer of 3000 ms; an armed card is disarmed when its timer fires, so it is
\* never armed for longer than 3000 ms after it was set.
DeleteNeedsArmedClick ==
    /\ [](confirmDeleteId # Null =>
            /\ confirmDeadline # NoDeadline
            /\ now <= confirmDeadline
            /\ confirmDeadline <= now + ConfirmMs)
    /\ [][(deleteCalls' # deleteCalls =>
                /\ confirmDeleteId # Null
                /\ confirmDeleteId \in DocIds(projects)
                /\ deleteCalls' = Append(deleteCalls, confirmDeleteId)
                /\ UNCHANGED <<confirmDeleteId, confirmDeadline>>)
           /\ (confirmDeleteId' # confirmDeleteId /\ confirmDeleteId' # Null =>
                /\ confirmDeleteId' \in DocIds(projects)
                /\ confirmDeadline' = now + ConfirmMs
                /\ UNCHANGED <<deleteCalls, repo, projects, activeProjectId>>)
           /\ (confirmDeleteId # Null /\ confirmDeleteId' = Null =>
                /\ now = confirmDeadline
                /\ UNCHANGED <<deleteCalls, repo, projects>>)]_vars

DeletedThenDisarmed ==
    /\ dashboardShown
    /\ deleteCalls # <<>>
    /\ deleteCalls[1] \notin DocIds(projects)
    /\ confirmDeleteId = Null
    /\ now >= ConfirmMs

\* C29: every project handleCreateProject or handleUpdateProject stored lies
\* in the owner scope the subscription reads, and the project the 'Error' view
\* stands for is in that scope, so that a delivery opens the editor on it.
WritesReachSubscribedScope ==
    /\ \A u \in Uids : repo[u] # {} => u = SHARED_UID
    /\ errorShown => \E d \in repo[SHARED_UID] : d.id = activeProjectId

====
